---- MODULE Spec2Model ----
(***************************************************************************)
(* A model of claudesidian/web/scraper.py: WebScraper.normalize_url (the   *)
(* URL resolver) and WebScraper.scrape (the scraping orchestrator) with    *)
(* the browser life cycle around them.                                     *)
(*                                                                         *)
(* Python strings are TLA+ strings; TLC evaluates Len, \o and SubSeq on    *)
(* them, and every string function of the code is computed character by    *)
(* character from those three.                                             *)
(***************************************************************************)
EXTENDS Integers, Sequences, FiniteSets, TLC

(***************************************************************************)
(* Bounds of the model.                                                    *)
(***************************************************************************)
\* number of call frames that exist at a time
MaxSlots == 2
\* number of calls (scrape or normalize_url) a behaviour may start
MaxStarted == 2
\* number of times the embedding program may launch a browser
MaxLaunches == 2

(***************************************************************************)
(* String helpers: str.strip, str.lower, str.startswith, str.endswith.     *)
(***************************************************************************)
CharAt(s, i) == SubSeq(s, i, i)

Whitespace == {" ", "\t"}

UpperAlpha == "ABCDEFGHIJKLMNOPQRSTUVWXYZ"
LowerAlpha == "abcdefghijklmnopqrstuvwxyz"
Digits == {"0", "1", "2", "3", "4", "5", "6", "7", "8", "9"}

LowerChar(ch) ==
    IF \E i \in 1..Len(UpperAlpha) : CharAt(UpperAlpha, i) = ch
    THEN CharAt(LowerAlpha, CHOOSE i \in 1..Len(UpperAlpha) : CharAt(UpperAlpha, i) = ch)
    ELSE ch

RECURSIVE Lower(_)
Lower(s) ==
    IF Len(s) = 0 THEN ""
    ELSE LowerChar(CharAt(s, 1)) \o Lower(SubSeq(s, 2, Len(s)))

\* str.strip(): drop the leading and the trailing whitespace
Strip(s) ==
    LET inked == {i \in 1..Len(s) : CharAt(s, i) \notin Whitespace}
    IN  IF inked = {} THEN ""
        ELSE SubSeq(s, CHOOSE i \in inked : \A j \in inked : i <= j,
                       CHOOSE i \in inked : \A j \in inked : i >= j)

StartsWith(s, p) == Len(p) <= Len(s) /\ SubSeq(s, 1, Len(p)) = p

EndsWith(s, p) == Len(p) <= Len(s) /\ SubSeq(s, Len(s) - Len(p) + 1, Len(s)) = p

RECURSIVE Flatten(_)
Flatten(ss) == IF ss = <<>> THEN <<>> ELSE Head(ss) \o Flatten(Tail(ss))

(***************************************************************************)
(* normalize_url: the pure part (lines 96-135 and 148).                    *)
(***************************************************************************)
COMMON_PROTOCOLS == <<"https://", "http://">>
COMMON_PREFIXES == <<"www.", "">>
COMMON_SUFFIXES ==
    <<".com", ".ai", ".org", ".net", ".io", ".co",
      ".edu", ".gov", ".uk", ".de", ".cn", ".jp">>

\* url = url.strip().lower()
CleanUrl(input) == Lower(Strip(input))

\* a slip: only one of the two schemes is recognised
IsCompleteUrlHttpsOnly(url) == StartsWith(url, "https://")

\* url.startswith(('http://', 'https://'))
IsCompleteUrl(url) == StartsWith(url, "http://") \/ StartsWith(url, "https://")

\* re.sub(r'^.*://', '', url): the greedy .* takes everything up to the last "://"
StripProtocol(url) ==
    LET at == {i \in 1..(Len(url) - 2) : SubSeq(url, i, i + 2) = "://"}
    IN  IF at = {} THEN url
        ELSE SubSeq(url, (CHOOSE i \in at : \A j \in at : i >= j) + 3, Len(url))

\* re.match(r'^\d{1,3}(\.\d{1,3}){3}$', url): digits and dots only, three dots,
\* four runs of one to three digits
IsIp(url) ==
    LET dots == {i \in 1..Len(url) : CharAt(url, i) = "."}
        ends == dots \cup {0, Len(url) + 1}
        runs == {<<a, b>> \in ends \X ends :
                    a < b /\ ~\E d \in ends : a < d /\ d < b}
    IN  /\ \A i \in 1..Len(url) : CharAt(url, i) \in Digits \cup {"."}
        /\ Cardinality(dots) = 3
        /\ \A r \in runs : r[2] - r[1] - 1 \in 1..3

\* lines 111-119: one base per suffix unless the url ends in a known suffix
BaseCandidates(url) ==
    IF ~\E i \in 1..Len(COMMON_SUFFIXES) : EndsWith(url, COMMON_SUFFIXES[i])
    THEN [i \in 1..Len(COMMON_SUFFIXES) |->
            IF EndsWith(url, COMMON_SUFFIXES[i]) THEN url
            ELSE url \o COMMON_SUFFIXES[i]]
    ELSE <<url>>

\* lines 122-127: the prefixes of one base; base.startswith('') decides it
PrefixVariants(base) ==
    IF ~\E i \in 1..Len(COMMON_PREFIXES) : StartsWith(base, COMMON_PREFIXES[i])
    THEN [i \in 1..Len(COMMON_PREFIXES) |-> COMMON_PREFIXES[i] \o base]
    ELSE <<base>>

\* a slip: the dotted-quad test is left out
CandidatesWithoutIpTest(url) ==
    LET bases == BaseCandidates(url)
    IN  Flatten([i \in 1..Len(bases) |-> PrefixVariants(bases[i])])

\* lines 106-129: candidates
Candidates(url) ==
    IF ~IsIp(url)
    THEN LET bases == BaseCandidates(url)
         IN  Flatten([i \in 1..Len(bases) |-> PrefixVariants(bases[i])])
    ELSE <<url>>

\* lines 132-135: final_candidates
ProtocolVariants(candidate) ==
    [i \in 1..Len(COMMON_PROTOCOLS) |-> COMMON_PROTOCOLS[i] \o candidate]

FinalCandidates(url) ==
    LET cands == Candidates(url)
    IN  Flatten([i \in 1..Len(cands) |-> ProtocolVariants(cands[i])])

\* a slip: the fallback of an address is used for every input
FallbackWithoutPrefix(url) == "https://" \o url

\* line 148
Fallback(url) == IF ~IsIp(url) THEN "https://www." \o url ELSE "https://" \o url

\* urlparse(url).path (line 177): what follows the network location, up to the
\* query or the fragment
UrlPath(url) ==
    LET colon == {i \in 1..Len(url) : CharAt(url, i) = ":"}
        c     == IF colon = {} THEN 0 ELSE CHOOSE i \in colon : \A j \in colon : i <= j
        rest  == SubSeq(url, c + 1, Len(url))
        hasNet == StartsWith(rest, "//")
        body  == IF hasNet THEN SubSeq(rest, 3, Len(rest)) ELSE rest
        stops == {i \in 1..Len(body) :
                    \/ CharAt(body, i) \in {"?", "#"}
                    \/ hasNet /\ CharAt(body, i) = "/"}
        from  == IF ~hasNet THEN 1
                 ELSE IF stops = {} THEN Len(body) + 1
                 ELSE CHOOSE i \in stops : \A j \in stops : i <= j
        tail  == SubSeq(body, from, Len(body))
        cuts  == {i \in 1..Len(tail) : CharAt(tail, i) \in {"?", "#"}}
    IN  IF cuts = {} THEN tail
        ELSE SubSeq(tail, 1, (CHOOSE i \in cuts : \A j \in cuts : i <= j) - 1)

\* a slip: the alternatives are built whatever the path
AlternativesForAnyPath(normalized_url) ==
    << normalized_url \o "/index.html",
       normalized_url \o "/home",
       normalized_url \o "/main" >>

\* a slip: the alternatives are listed in another order
AlternativesHomeFirst(normalized_url) ==
    IF UrlPath(normalized_url) = "" \/ UrlPath(normalized_url) = "/"
    THEN << normalized_url \o "/home",
            normalized_url \o "/index.html",
            normalized_url \o "/main" >>
    ELSE <<>>

\* lines 176-183: the alternative URL formations
Alternatives(normalized_url) ==
    IF UrlPath(normalized_url) = "" \/ UrlPath(normalized_url) = "/"
    THEN << normalized_url \o "/index.html",
            normalized_url \o "/home",
            normalized_url \o "/main" >>
    ELSE <<>>

(***************************************************************************)
(* Configuration (lines 42-57 and 82).                                     *)
(***************************************************************************)
DEFAULT_CONFIG ==
    [ max_wait_time      |-> 30,
      screenshot_enabled |-> TRUE,
      js_enabled         |-> TRUE,
      timeout            |-> 60000,
      max_redirects      |-> 5,
      viewport           |-> [width |-> 1920, height |-> 1080],
      user_agents        |-> <<"Chrome/121 Windows", "Chrome/121 Macintosh", "Edg/120 Windows">> ]

\* {**self.DEFAULT_CONFIG, **(config or {})}
MergeConfig(defaults, user) ==
    [k \in DOMAIN defaults \cup DOMAIN user |->
        IF k \in DOMAIN user THEN user[k] ELSE defaults[k]]

\* dict.get(key): None when the key is missing
ConfigGet(cfg, key) == IF key \in DOMAIN cfg THEN cfg[key] ELSE "None"

\* the configs a caller passes to WebScraper(config)
UserConfigs ==
    { [k \in {} |-> TRUE],
      [screenshot_enabled |-> FALSE, image_handling |-> "IGNORE"],
      [viewport |-> [width |-> 800]] }

(***************************************************************************)
(* State.                                                                  *)
(***************************************************************************)
VARIABLES
    puppeteerBound, \* whether the module global `puppeteer` resolves: the module
                    \* uses the name (lines 232, 238) and never imports it, so the
                    \* embedding program decides
    config,         \* self.config
    browser,        \* self.browser: "unset" (no such attribute), "launched", "None"
    launches,       \* number of puppeteer.launch calls so far
    closing,        \* close() is suspended in `await self.browser.close()`
    opened,         \* number of pages browser.newPage() has created so far
    pages,          \* the open pages: page id -> [owner, browser]
    started,        \* number of calls started so far
    calls           \* the call frames: slot -> locals, position, history, outcome

vars == <<puppeteerBound, config, browser, launches, closing, opened, pages, started, calls>>

Slots == 1..MaxSlots

\* what the environment answers
ProbeStatuses == {200, 400}
NavStatuses == {200, 400, 404}
Redirected == "https://iana.org/home"

NoProbe == [made |-> FALSE, raised |-> FALSE, status |-> 0, url |-> ""]
NoResponse == [present |-> FALSE, status |-> 0]
NoOutcome == [type |-> "none", message |-> "", url |-> "", status |-> 0]
NoContent ==
    [url |-> "", metadata |-> FALSE, content |-> FALSE, images |-> FALSE,
     links |-> FALSE, screenshots |-> FALSE]

IdleCall ==
    [ kind        |-> "none",     \* "normalize_url" or "scrape"
      id          |-> 0,          \* serial number of the call
      pc          |-> "idle",
      input       |-> "",
      url         |-> "",         \* normalize_url's local `url`
      candidates  |-> <<>>,       \* final_candidates
      probed      |-> <<>>,       \* the HEAD requests sent, in order
      lastProbe   |-> NoProbe,    \* what the last HEAD request met
      normalized  |-> "",         \* normalized_url
      page        |-> 0,          \* the page of this call, 0 before newPage
      pageUrl     |-> "",         \* page.url: only the call that holds the page
                                  \* navigates it and reads its URL
      response    |-> NoResponse,
      alt         |-> 0,          \* alternatives tried so far
      log         |-> <<>>,       \* the operations issued, in order
      content     |-> NoContent,
      outcome     |-> NoOutcome,
      openAtStart |-> 0 ]         \* open pages when the call began

\* the values a call ends with
Returned(value) == [type |-> "return", message |-> "", url |-> value, status |-> 0]
\* ScrapingError(message, url, status); status 0 is None
ScrapingError(message, url, status) ==
    [type |-> "ScrapingError", message |-> message, url |-> url, status |-> status]
Error(type) == [type |-> type, message |-> "", url |-> "", status |-> 0]

InFlight(c) == calls[c].pc \notin {"idle", "returned", "raised"}
Finished(c) == calls[c].pc \in {"returned", "raised"}
OpenPages == Cardinality(DOMAIN pages)

Init ==
    /\ puppeteerBound \in BOOLEAN
    /\ config \in {MergeConfig(DEFAULT_CONFIG, user) : user \in UserConfigs}
    \* __init__ calls the coroutine function _setup_puppeteer without awaiting
    \* it (line 84): its body has not run and self.browser is not set
    /\ browser = "unset"
    /\ launches = 0
    /\ closing = FALSE
    /\ opened = 0
    /\ pages = [p \in {} |-> 0]
    /\ started = 0
    /\ calls = [c \in Slots |-> IdleCall]

(***************************************************************************)
(* Browser life cycle.                                                     *)
(***************************************************************************)
\* await scraper._setup_puppeteer() (lines 236-253); with `puppeteer` unbound
\* the call raises NameError and changes nothing
SetupPuppeteer ==
    /\ puppeteerBound
    /\ launches < MaxLaunches
    /\ launches' = launches + 1
    /\ browser' = "launched"
    /\ UNCHANGED <<puppeteerBound, config, closing, opened, pages, started, calls>>

\* close(), up to its await (lines 384-385): the browser and its pages go down
CloseBegin ==
    /\ ~closing
    /\ browser = "launched"
    /\ closing' = TRUE
    /\ pages' = [p \in {q \in DOMAIN pages : pages[q].browser # launches} |-> pages[p]]
    /\ UNCHANGED <<puppeteerBound, config, browser, launches, opened, started, calls>>

\* a slip: the handle is left as it was
CloseEndKeepsHandle ==
    /\ closing
    /\ closing' = FALSE
    /\ UNCHANGED <<puppeteerBound, config, browser, launches, opened, pages, started, calls>>

\* close(), after its await (line 386)
CloseEnd ==
    /\ closing
    /\ closing' = FALSE
    /\ browser' = "None"
    /\ UNCHANGED <<puppeteerBound, config, launches, opened, pages, started, calls>>

(***************************************************************************)
(* normalize_url (lines 86-148).                                           *)
(***************************************************************************)
\* normalize_url returns `value`: to scrape (line 161) or to the caller
LeaveNormalize(call, value) ==
    IF call.kind = "scrape"
    THEN [call EXCEPT !.normalized = value, !.pc = "newPage"]
    ELSE [call EXCEPT !.outcome = Returned(value), !.pc = "returned"]

\* lines 96-135, up to the first suspension
EnterNormalize(call, input) ==
    LET url == CleanUrl(input)
    IN  IF IsCompleteUrl(url)
        THEN LeaveNormalize([call EXCEPT !.input = input, !.url = url], url)
        ELSE [call EXCEPT !.input = input,
                          !.url = StripProtocol(url),
                          !.candidates = FinalCandidates(StripProtocol(url)),
                          !.pc = "probing"]

\* what session.head(candidate, allow_redirects=True) can meet
ProbeOutcomes(candidate) ==
    {[made |-> TRUE, raised |-> TRUE, status |-> 0, url |-> ""]}
    \cup {[made |-> TRUE, raised |-> FALSE, status |-> st, url |-> u] :
            st \in ProbeStatuses, u \in {candidate, Redirected}}

\* a slip: the comparison lets status 400 through
ProbeSucceededUpTo400(probe) == ~probe.raised /\ probe.status <= 400

\* line 142
ProbeSucceeded(probe) == ~probe.raised /\ probe.status < 400

\* lines 140-145: one turn of the loop
AfterProbe(call, candidate, probe) ==
    LET sent == [call EXCEPT !.probed = Append(@, candidate), !.lastProbe = probe]
    IN  IF ProbeSucceeded(probe) THEN LeaveNormalize(sent, probe.url) ELSE sent

\* the slot a new call takes: the lowest idle one
FreeSlot(c) == calls[c].pc = "idle" /\ \A d \in Slots : d < c => calls[d].pc # "idle"

NewCall(kind) ==
    [IdleCall EXCEPT !.kind = kind, !.id = started + 1, !.openAtStart = OpenPages]

\* a caller awaits scraper.normalize_url(input)
StartNormalize(c, input) ==
    /\ FreeSlot(c)
    /\ started < MaxStarted
    /\ started' = started + 1
    /\ calls' = [calls EXCEPT ![c] = EnterNormalize(NewCall("normalize_url"), input)]
    /\ UNCHANGED <<puppeteerBound, config, browser, launches, closing, opened, pages>>

\* lines 139-145: the next candidate is probed
Probe(c) ==
    /\ calls[c].pc = "probing"
    /\ Len(calls[c].probed) < Len(calls[c].candidates)
    /\ LET candidate == calls[c].candidates[Len(calls[c].probed) + 1]
       IN  \E probe \in ProbeOutcomes(candidate) :
              calls' = [calls EXCEPT ![c] = AfterProbe(@, candidate, probe)]
    /\ UNCHANGED <<puppeteerBound, config, browser, launches, closing, opened, pages, started>>

\* lines 147-148: the loop ran out of candidates
NormalizeFallback(c) ==
    /\ calls[c].pc = "probing"
    /\ Len(calls[c].probed) = Len(calls[c].candidates)
    /\ calls' = [calls EXCEPT ![c] = LeaveNormalize(@, Fallback(@.url))]
    /\ UNCHANGED <<puppeteerBound, config, browser, launches, closing, opened, pages, started>>

\* the caller takes the outcome of a finished call; its frame is gone
Collect(c) ==
    /\ Finished(c)
    /\ calls' = [calls EXCEPT ![c] = IdleCall]
    /\ UNCHANGED <<puppeteerBound, config, browser, launches, closing, opened, pages, started>>

(***************************************************************************)
(* scrape (lines 150-234).                                                 *)
(***************************************************************************)
\* lines 231-234: the except clause
HandleException(e, normalized_url) ==
    IF ~puppeteerBound THEN Error("NameError")
    ELSE IF e.type = "TimeoutError"
         THEN ScrapingError("Page load timeout", normalized_url, 0)
         ELSE e

Raise(call, e) ==
    [call EXCEPT !.outcome = HandleException(e, call.normalized), !.pc = "raised"]

\* the operations a call issued and what each met, in order
Logged(call, op, arg, result, status) ==
    [call EXCEPT !.log = Append(@, [op |-> op, arg |-> arg, result |-> result, status |-> status])]

\* a page that was closed, with its browser or alone, fails every operation
PageGone(c) == calls[c].page \notin DOMAIN pages
PageOutcomes(c, outcomes) == IF PageGone(c) THEN {"error"} ELSE outcomes

\* a slip: the comparison lets status 400 through
IsHttpErrorAbove400(status) == status > 400

\* lines 199-201
IsHttpError(status) == status >= 400

CheckStatus(call, status) ==
    LET got == [call EXCEPT !.response = [present |-> TRUE, status |-> status]]
    IN  IF IsHttpError(status)
        THEN Raise(got, ScrapingError("HTTP " \o ToString(status), call.normalized, status))
        ELSE [got EXCEPT !.pc = "wait_ready"]

\* a caller awaits scraper.scrape(input): line 161 runs normalize_url to its
\* first suspension
StartScrape(c, input) ==
    /\ FreeSlot(c)
    /\ started < MaxStarted
    /\ started' = started + 1
    /\ calls' = [calls EXCEPT ![c] = EnterNormalize(NewCall("scrape"), input)]
    /\ UNCHANGED <<puppeteerBound, config, browser, launches, closing, opened, pages>>

\* a slip: the call takes the tab the browser opened last, when there is one,
\* instead of a new one
LastOpenedPage == IF opened = 0 THEN opened + 1 ELSE opened

\* line 165: browser.newPage() makes a page that did not exist
FreshPage == opened + 1

\* line 165
NewPage(c) ==
    /\ calls[c].pc = "newPage"
    /\ IF browser # "launched"
       THEN /\ calls' = [calls EXCEPT ![c] =
                  Raise(Logged(@, "newPage", "", "error", 0), Error("AttributeError"))]
            /\ UNCHANGED <<opened, pages>>
       ELSE \/ /\ ~closing
               /\ opened' = opened + 1
               /\ pages' = pages @@ (FreshPage :>
                    [owner |-> calls[c].id, browser |-> launches])
               /\ calls' = [calls EXCEPT ![c] =
                    [Logged(@, "newPage", "", "ok", 0) EXCEPT
                        !.page = FreshPage, !.pageUrl = "about:blank",
                        !.pc = "setup_page"]]
            \/ /\ calls' = [calls EXCEPT ![c] =
                    Raise(Logged(@, "newPage", "", "error", 0), Error("PageError"))]
               /\ UNCHANGED <<opened, pages>>
    /\ UNCHANGED <<puppeteerBound, config, browser, launches, closing, started>>

\* a slip: the failure of an operation is dropped and the call goes on
PageResultGoingOn(call, o, done) == done

\* a page operation that succeeds, ending in `done`, or raises
PageResult(call, o, done) ==
    CASE o = "ok" -> done
      [] o = "timeout" -> Raise(call, Error("TimeoutError"))
      [] OTHER -> Raise(call, Error("PageError"))

\* line 166, lines 255-273
SetupPage(c) ==
    /\ calls[c].pc = "setup_page"
    /\ \E o \in PageOutcomes(c, {"ok", "error"}) :
          LET call == Logged(calls[c], "setup_page", "", o, 0)
          IN  calls' = [calls EXCEPT ![c] =
                 PageResult(call, o, [call EXCEPT !.pc = "goto"])]
    /\ UNCHANGED <<puppeteerBound, config, browser, launches, closing, opened, pages, started>>

\* what a navigation can meet: no answer (`failures` names the ways), or a
\* response with a status and the URL the page ended on
NavOutcomes(c, url, failures) ==
    {[result |-> o, status |-> 0, final |-> ""] : o \in PageOutcomes(c, failures)}
    \cup {[result |-> "response", status |-> st, final |-> final] :
            st \in IF PageGone(c) THEN {} ELSE NavStatuses,
            final \in {url, Redirected}}

\* a navigation was made: it is logged, and a response moves the page to
\* the final URL
Navigated(call, url, nav) ==
    [Logged(call, "goto", url, nav.result, nav.status) EXCEPT
        !.pageUrl = IF nav.result = "response" THEN nav.final ELSE @]

\* lines 169-183 and 196-201: the first navigation
Goto(c) ==
    /\ calls[c].pc = "goto"
    /\ \E nav \in NavOutcomes(c, calls[c].normalized, {"timeout", "error", "none"}) :
          LET call == Navigated(calls[c], calls[c].normalized, nav)
          IN  calls' = [calls EXCEPT ![c] =
                 CASE nav.result = "timeout" -> Raise(call, Error("TimeoutError"))
                   [] nav.result = "error" -> Raise(call, Error("PageError"))
                   [] nav.result = "none" ->
                        IF Alternatives(call.normalized) = <<>>
                        THEN Raise(call, ScrapingError("Failed to load page", call.normalized, 0))
                        ELSE [call EXCEPT !.pc = "alternative"]
                   [] OTHER -> CheckStatus(call, nav.status)]
    /\ UNCHANGED <<puppeteerBound, config, browser, launches, closing, opened, pages, started>>

\* lines 185-201: one turn of the loop over the alternatives; `except: continue`
\* takes every exception alike, and a timeout stands for them
GotoAlternative(c) ==
    /\ calls[c].pc = "alternative"
    /\ LET alts == Alternatives(calls[c].normalized)
           alt_url == alts[calls[c].alt + 1]
       IN  \E nav \in NavOutcomes(c, alt_url, {"timeout", "none"}) :
              LET call == [Navigated(calls[c], alt_url, nav) EXCEPT !.alt = @ + 1]
              IN  calls' = [calls EXCEPT ![c] =
                     IF nav.result = "response" THEN CheckStatus(call, nav.status)
                     ELSE IF call.alt = Len(alts)
                     THEN Raise(call, ScrapingError("Failed to load page", call.normalized, 0))
                     ELSE call]
    /\ UNCHANGED <<puppeteerBound, config, browser, launches, closing, opened, pages, started>>

\* lines 204, 318-321: _handle_anti_bot waits for the page to be ready
WaitReady(c) ==
    /\ calls[c].pc = "wait_ready"
    /\ \E o \in PageOutcomes(c, {"ok", "timeout", "error"}) :
          LET call == Logged(calls[c], "waitForFunction", "", o, 0)
          IN  calls' = [calls EXCEPT ![c] =
                 PageResult(call, o, [call EXCEPT !.pc = "scrolling"])]
    /\ UNCHANGED <<puppeteerBound, config, browser, launches, closing, opened, pages, started>>

\* lines 324, 332-359
SimulateScrolling(c) ==
    /\ calls[c].pc = "scrolling"
    /\ \E o \in PageOutcomes(c, {"ok", "error"}) :
          LET call == Logged(calls[c], "scroll", "", o, 0)
          IN  calls' = [calls EXCEPT ![c] =
                 PageResult(call, o, [call EXCEPT !.pc = "cookies"])]
    /\ UNCHANGED <<puppeteerBound, config, browser, launches, closing, opened, pages, started>>

\* what the dismissal of a cookie-consent popup can meet: no popup, a popup
\* dismissed, or an interaction that failed
DismissalOutcomes == {"none", "dismissed", "failed"}

\* a slip: a failed interaction is let out of the step
AfterDismissalRaising(call, o) ==
    IF o = "failed" THEN Raise(call, Error("PageError"))
    ELSE [call EXCEPT !.pc = "challenges"]

\* _handle_cookie_popups is not in the file: one dismissal attempt, and the
\* step returns whatever the attempt met
AfterDismissal(call, o) == [call EXCEPT !.pc = "challenges"]

\* line 327, followed by line 330
HandleCookiePopups(c) ==
    /\ calls[c].pc = "cookies"
    /\ \E o \in (IF PageGone(c) THEN {"failed"} ELSE DismissalOutcomes) :
          calls' = [calls EXCEPT ![c] =
             AfterDismissal(Logged(@, "cookies", "", o, 0), o)]
    /\ UNCHANGED <<puppeteerBound, config, browser, launches, closing, opened, pages, started>>

\* a slip: the error carries the URL asked for, as the other errors of scrape do
ChallengeErrorAtRequestedUrl(call, found) ==
    ScrapingError(IF found = "captcha" THEN "CAPTCHA detected"
                  ELSE "Cloudflare protection detected",
                  call.normalized, 0)

\* lines 375-376 and 379-380: the error a detected challenge raises carries
\* page.url
ChallengeError(call, found) ==
    ScrapingError(IF found = "captcha" THEN "CAPTCHA detected"
                  ELSE "Cloudflare protection detected",
                  call.pageUrl, 0)

\* lines 330, 361-380 and, the page being clear, line 207
HandleChallenges(c) ==
    /\ calls[c].pc = "challenges"
    /\ \E o \in PageOutcomes(c, {"clear", "captcha", "cloudflare", "error"}) :
          LET call == Logged(calls[c], "challenges", "", o, 0)
          IN  calls' = [calls EXCEPT ![c] =
                 CASE o = "clear" ->
                        [call EXCEPT !.content = [NoContent EXCEPT !.url = call.normalized],
                                     !.pc = "metadata"]
                   [] o = "error" -> Raise(call, Error("PageError"))
                   [] OTHER -> Raise(call, ChallengeError(call, o))]
    /\ UNCHANGED <<puppeteerBound, config, browser, launches, closing, opened, pages, started>>

\* line 216
ImagesWanted == ConfigGet(config, "image_handling") # "IGNORE"
\* line 223
ScreenshotsWanted ==
    "screenshot_enabled" \in DOMAIN config /\ config["screenshot_enabled"] = TRUE

\* line 210: _extract_metadata is not in the file
ExtractMetadata(c) ==
    /\ calls[c].pc = "metadata"
    /\ \E o \in PageOutcomes(c, {"ok", "error"}) :
          LET call == Logged(calls[c], "metadata", "", o, 0)
          IN  calls' = [calls EXCEPT ![c] =
                 PageResult(call, o,
                    [call EXCEPT !.content.metadata = TRUE, !.pc = "content"])]
    /\ UNCHANGED <<puppeteerBound, config, browser, launches, closing, opened, pages, started>>

\* lines 213-216: _extract_content is not in the file
ExtractContent(c) ==
    /\ calls[c].pc = "content"
    /\ \E o \in PageOutcomes(c, {"ok", "error"}) :
          LET call == Logged(calls[c], "content", "", o, 0)
          IN  calls' = [calls EXCEPT ![c] =
                 PageResult(call, o,
                    [call EXCEPT !.content.content = TRUE,
                                 !.pc = IF ImagesWanted THEN "images" ELSE "links"])]
    /\ UNCHANGED <<puppeteerBound, config, browser, launches, closing, opened, pages, started>>

\* line 217: _handle_images is not in the file
HandleImages(c) ==
    /\ calls[c].pc = "images"
    /\ \E o \in PageOutcomes(c, {"ok", "error"}) :
          LET call == Logged(calls[c], "images", "", o, 0)
          IN  calls' = [calls EXCEPT ![c] =
                 PageResult(call, o,
                    [call EXCEPT !.content.images = TRUE, !.pc = "links"])]
    /\ UNCHANGED <<puppeteerBound, config, browser, launches, closing, opened, pages, started>>

\* lines 220-223: _extract_links is not in the file
ExtractLinks(c) ==
    /\ calls[c].pc = "links"
    /\ \E o \in PageOutcomes(c, {"ok", "error"}) :
          LET call == Logged(calls[c], "links", "", o, 0)
          IN  calls' = [calls EXCEPT ![c] =
                 PageResult(call, o,
                    [call EXCEPT !.content.links = TRUE,
                                 !.pc = IF ScreenshotsWanted THEN "screenshots" ELSE "close"])]
    /\ UNCHANGED <<puppeteerBound, config, browser, launches, closing, opened, pages, started>>

\* line 224: _take_screenshots is not in the file
TakeScreenshots(c) ==
    /\ calls[c].pc = "screenshots"
    /\ \E o \in PageOutcomes(c, {"ok", "error"}) :
          LET call == Logged(calls[c], "screenshots", "", o, 0)
          IN  calls' = [calls EXCEPT ![c] =
                 PageResult(call, o,
                    [call EXCEPT !.content.screenshots = TRUE, !.pc = "close"])]
    /\ UNCHANGED <<puppeteerBound, config, browser, launches, closing, opened, pages, started>>

\* lines 227-229
ClosePage(c) ==
    /\ calls[c].pc = "close"
    /\ \E o \in PageOutcomes(c, {"ok", "error"}) :
          LET call == Logged(calls[c], "close", "", o, 0)
          IN  IF o = "ok"
              THEN /\ pages' = [p \in DOMAIN pages \ {call.page} |-> pages[p]]
                   /\ calls' = [calls EXCEPT ![c] =
                         [call EXCEPT !.pc = "returned",
                                      !.outcome = [type |-> "WebContent", message |-> "",
                                                   url |-> call.content.url, status |-> 0]]]
              ELSE /\ calls' = [calls EXCEPT ![c] = Raise(call, Error("PageError"))]
                   /\ UNCHANGED pages
    /\ UNCHANGED <<puppeteerBound, config, browser, launches, closing, opened, started>>

\* the suspension points of scrape at which a cancellation leaves the call:
\* the awaits of lines 165-227 outside the loop of lines 185-194, whose
\* `except:` takes a cancellation as it takes every exception
CancelPoints ==
    {"newPage", "setup_page", "goto", "wait_ready", "scrolling", "cookies",
     "challenges", "metadata", "content", "images", "links", "screenshots", "close"}

\* a caller-level timeout (asyncio.wait_for around scrape) cancels the call at
\* an await: CancelledError is no Exception, line 231 does not take it, and
\* the call is left with what it held
Cancel(c) ==
    /\ calls[c].kind = "scrape"
    /\ calls[c].pc \in CancelPoints
    /\ calls' = [calls EXCEPT ![c] =
          [Logged(@, "cancel", "", @.pc, 0) EXCEPT
              !.outcome = Error("CancelledError"), !.pc = "raised"]]
    /\ UNCHANGED <<puppeteerBound, config, browser, launches, closing, opened, pages, started>>

(***************************************************************************)
(* Specifications.                                                         *)
(***************************************************************************)
\* the strings given to normalize_url: padding, a scheme and a body
UrlInputs ==
    { lead \o scheme \o body \o trail :
        lead \in {"", " "},
        scheme \in {"", "http://", "https://", "HTTPS://", "ftp://"},
        body \in {"example", "Example.COM", "www.example", "www.example.org",
                  "10.0.0.1", "256.300.1.999", "10.0.0", "10.0.0.1.5",
                  "1234.0.0.1", "ex.com/Path", "a://b"},
        trail \in {"", "\t"} }

\* the strings given to scrape
ScrapeInputs == {"https://ex.com/", "10.0.0.1"}

\* one call of scrape runs from its first suspension to its end
ScrapeStep(c) ==
    \/ Probe(c)
    \/ NormalizeFallback(c)
    \/ NewPage(c)
    \/ SetupPage(c)
    \/ Goto(c)
    \/ GotoAlternative(c)
    \/ WaitReady(c)
    \/ SimulateScrolling(c)
    \/ HandleCookiePopups(c)
    \/ HandleChallenges(c)
    \/ ExtractMetadata(c)
    \/ ExtractContent(c)
    \/ HandleImages(c)
    \/ ExtractLinks(c)
    \/ TakeScreenshots(c)
    \/ ClosePage(c)
    \/ Cancel(c)

\* no call is running or waiting to be collected and close() is not under way:
\* a caller that awaits one operation at a time can start the next
Quiet == ~closing /\ \A c \in Slots : calls[c].pc = "idle"

\* a caller that awaits one operation at a time: a scrape, the set-up of the
\* browser or close()
Next ==
    \/ Quiet /\ SetupPuppeteer
    \/ Quiet /\ CloseBegin
    \/ CloseEnd
    \/ \E c \in Slots, input \in ScrapeInputs : Quiet /\ StartScrape(c, input)
    \/ \E c \in Slots : ScrapeStep(c)
    \/ \E c \in Slots : Collect(c)

Spec == Init /\ [][Next]_vars

\* a caller that awaits one normalize_url at a time
NextUrl ==
    \/ \E c \in Slots, input \in UrlInputs : Quiet /\ StartNormalize(c, input)
    \/ \E c \in Slots : Probe(c)
    \/ \E c \in Slots : NormalizeFallback(c)
    \/ \E c \in Slots : Collect(c)

SpecUrl == Init /\ [][NextUrl]_vars

\* the event loop runs every task that can go on; a response or an error ends
\* every HEAD request
FairSpecUrl ==
    /\ SpecUrl
    /\ \A c \in Slots : WF_vars(Probe(c)) /\ WF_vars(NormalizeFallback(c))

\* the environment of the interleaved runs: sites that answer without
\* redirecting, failures of one kind per operation, and past the navigation
\* only the challenge check fails
Steady(call) ==
    /\ call.lastProbe.url # Redirected
    /\ call.lastProbe.status # 400
    /\ call.pageUrl # Redirected
    /\ \A i \in 1..Len(call.log) :
          LET e == call.log[i]
          IN  /\ e.result \notin {"timeout", "dismissed", "failed", "cloudflare"}
              /\ e.status # 400
              /\ e.result = "error" => e.op \in {"newPage", "goto"}
              /\ e.op = "cancel" => e.result = "goto"

\* one step of a call in that environment
SteadyStep(c) == ScrapeStep(c) /\ Steady(calls'[c])

\* callers that do not wait for one another: scrape calls against one browser
\* interleave at their awaits
NextConcurrent ==
    \/ Quiet /\ SetupPuppeteer
    \/ \E c \in Slots, input \in ScrapeInputs : StartScrape(c, input)
    \/ \E c \in Slots : SteadyStep(c)
    \/ \E c \in Slots : Collect(c)

InitConcurrent == Init /\ config = DEFAULT_CONFIG

SpecConcurrent == InitConcurrent /\ [][NextConcurrent]_vars

(***************************************************************************)
(* Properties.                                                             *)
(***************************************************************************)
\* the navigations of a call, in order
Gotos(call) == SelectSeq(call.log, LAMBDA e : e.op = "goto")

\* the extraction steps of a call
ExtractionOps == {"metadata", "content", "images", "links", "screenshots"}
Extractions(call) == SelectSeq(call.log, LAMBDA e : e.op \in ExtractionOps)

ProbeFailed(probe) == probe.made /\ (probe.raised \/ probe.status >= 400)
ProbeAnswered(probe) == probe.made /\ ~probe.raised /\ probe.status < 400

EndsInKnownSuffix(url) ==
    \E i \in 1..Len(COMMON_SUFFIXES) : EndsWith(url, COMMON_SUFFIXES[i])

\* the text starts with one of the two web schemes
HasHttpScheme(text) == StartsWith(text, "http://") \/ StartsWith(text, "https://")

\* C1: every scrape call that opened a page has closed it when the call ends,
\* returning or raising, and the number of open pages is what it was when the
\* call began.
C1_PageClosedOnEveryExit ==
    \A c \in Slots :
        (calls[c].kind = "scrape" /\ Finished(c) /\ calls[c].page # 0)
        => /\ calls[c].page \notin DOMAIN pages
           /\ OpenPages = calls[c].openAtStart

\* C2: for an input with no http/https scheme that is not a dotted quad and
\* does not end in a known suffix, the candidate list has
\* (suffixes) x (prefixes) x (protocols) = 12 x 2 x 2 = 48 entries.
C2_CandidateCount ==
    \A c \in Slots :
        ( /\ calls[c].kind # "none"
          /\ ~HasHttpScheme(Lower(Strip(calls[c].input)))
          /\ ~IsIp(calls[c].url)
          /\ ~EndsInKnownSuffix(calls[c].url) )
        => Len(calls[c].candidates)
             = Len(COMMON_SUFFIXES) * Len(COMMON_PREFIXES) * Len(COMMON_PROTOCOLS)

\* C3: for the bare name "example" the probes go to https://www.example.com,
\* https://example.com, http://www.example.com, http://example.com in that
\* order, before any candidate with another suffix, and the first one that
\* answers gives the result.
C3_BareNameOrder ==
    \A c \in Slots :
        calls[c].input = "example"
        => LET first == << "https://www.example.com", "https://example.com",
                           "http://www.example.com", "http://example.com" >>
               probed == calls[c].probed
           IN  /\ \A i \in 1..Len(probed) :
                     IF i <= Len(first) THEN probed[i] = first[i]
                     ELSE ~EndsWith(probed[i], ".com")
               /\ (Finished(c) /\ ProbeAnswered(calls[c].lastProbe))
                  => calls[c].outcome = Returned(calls[c].lastProbe.url)

\* C4 as stated: for an input that starts with http:// or https://,
\* normalize_url returns the input unchanged and sends no probe.
C4_CompleteUrlUnchanged ==
    \A c \in Slots :
        (calls[c].kind = "normalize_url" /\ Finished(c) /\ HasHttpScheme(calls[c].input))
        => /\ calls[c].outcome = Returned(calls[c].input)
           /\ calls[c].probed = <<>>

\* C4, amended: for an input that starts with http:// or https:// once it is
\* trimmed and lower-cased, normalize_url returns that trimmed, lower-cased
\* input and sends no probe.
C4_CompleteUrlCleaned ==
    \A c \in Slots :
        ( /\ calls[c].kind = "normalize_url"
          /\ Finished(c)
          /\ HasHttpScheme(Lower(Strip(calls[c].input))) )
        => /\ calls[c].outcome = Returned(Lower(Strip(calls[c].input)))
           /\ calls[c].probed = <<>>

C4_Witness ==
    \E c \in Slots :
        /\ calls[c].input = "http://Example.COM\t"
        /\ calls[c].outcome = Returned("http://example.com")
        /\ calls[c].probed = <<>>

\* C5: for a dotted-quad address no prefix or suffix variant is generated: the
\* candidates are exactly https://<ip> and http://<ip>, probed in that order.
C5_IpCandidates ==
    \A c \in Slots :
        (calls[c].kind # "none" /\ IsIp(calls[c].input))
        => LET expected == <<"https://" \o calls[c].input, "http://" \o calls[c].input>>
           IN  /\ calls[c].candidates = expected
               /\ Len(calls[c].probed) <= Len(expected)
               /\ \A i \in 1..Len(calls[c].probed) : calls[c].probed[i] = expected[i]

C5_Witness ==
    \E c \in Slots :
        /\ calls[c].input = "10.0.0.1"
        /\ calls[c].probed = <<"https://10.0.0.1", "http://10.0.0.1">>

\* C6, in every state: the probes sent are the candidates in list order, a
\* call still probing has met a failure last, and a call that ended on a probe
\* answered with a status below 400 returned the final URL of that probe; a
\* call that ended on a failed probe had tried every candidate.
C6_ProbeState ==
    \A c \in Slots :
        LET call == calls[c]
        IN  /\ Len(call.probed) <= Len(call.candidates)
            /\ \A i \in 1..Len(call.probed) : call.probed[i] = call.candidates[i]
            /\ (call.pc = "probing" /\ call.probed # <<>>) => ProbeFailed(call.lastProbe)
            /\ (call.pc # "probing" /\ call.probed # <<>>)
               => \/ /\ ProbeAnswered(call.lastProbe)
                     /\ call.kind = "normalize_url"
                        => call.outcome = Returned(call.lastProbe.url)
                     /\ call.kind = "scrape" => call.normalized = call.lastProbe.url
                  \/ /\ ProbeFailed(call.lastProbe)
                     /\ call.probed = call.candidates

\* C6, in every step: a probe is sent only by a call whose probes so far all
\* failed, and it goes to the next candidate of the list; nothing is probed
\* after a probe was answered with a status below 400.
C6_ProbeStep ==
    \A c \in Slots :
        (calls'[c].id = calls[c].id /\ calls'[c].probed # calls[c].probed)
        => /\ calls[c].pc = "probing"
           /\ calls[c].probed # <<>> => ProbeFailed(calls[c].lastProbe)
           /\ calls'[c].probed
                = Append(calls[c].probed, calls[c].candidates[Len(calls[c].probed) + 1])

\* C6: normalize_url probes the candidates one at a time in list order and
\* returns the final URL of the first one that answers with a status below 400.
C6_FirstSuccess == []C6_ProbeState /\ [][C6_ProbeStep]_vars

C6_Witness ==
    \E c \in Slots :
        /\ calls[c].kind = "normalize_url"
        /\ Len(calls[c].probed) = 3
        /\ calls[c].lastProbe.url = Redirected
        /\ calls[c].outcome = Returned(Redirected)

\* C7, in every state: a call that ended on a failed probe has probed every
\* candidate once and returned https://www.<url>, or https://<url> for an
\* address, where <url> is the trimmed, lower-cased, scheme-stripped input.
C7_FallbackState ==
    \A c \in Slots :
        LET call == calls[c]
            cleaned == StripProtocol(Lower(Strip(call.input)))
        IN  (call.kind = "normalize_url" /\ Finished(c) /\ ProbeFailed(call.lastProbe))
            => /\ call.outcome =
                    Returned(IF IsIp(cleaned) THEN "https://" \o cleaned
                             ELSE "https://www." \o cleaned)
               /\ Len(call.probed) = Len(call.candidates)
               /\ \A i, j \in 1..Len(call.probed) :
                     i # j => call.probed[i] # call.probed[j]

\* C7: when every probe fails normalize_url still ends, without raising, with
\* the fallback URL.
C7_FallbackWhenAllFail ==
    /\ []C7_FallbackState
    /\ \A c \in Slots :
          (calls[c].pc = "probing") ~> (calls[c].pc = "returned")

C7_Witness ==
    \E c \in Slots :
        /\ calls[c].input = " ftp://Example.COM"
        /\ Len(calls[c].probed) = 2
        /\ ProbeFailed(calls[c].lastProbe)
        /\ calls[c].outcome = Returned("https://www.example.com")

\* C8: when the first navigation of a URL with an empty or root path yields no
\* response, the navigations that follow go to <url>/index.html, <url>/home and
\* <url>/main in that order and stop at the first response; when none of the
\* three yields a response the call fails with
\* ScrapingError("Failed to load page", url).
C8_AlternativesInOrder ==
    \A c \in Slots :
        LET call == calls[c]
            u == call.normalized
            gs == Gotos(call)
            expected == <<u, u \o "/index.html", u \o "/home", u \o "/main">>
        IN  (gs # <<>> /\ gs[1].result = "none" /\ UrlPath(u) \in {"", "/"})
            => /\ Len(gs) <= Len(expected)
               /\ \A i \in 1..Len(gs) : gs[i].arg = expected[i]
               /\ \A i \in 1..(Len(gs) - 1) : gs[i].result # "response"
               /\ IF gs[Len(gs)].result = "response" THEN call.pc # "alternative"
                  ELSE IF Len(gs) < Len(expected) THEN call.pc = "alternative"
                  ELSE /\ call.pc = "raised"
                       /\ call.outcome = ScrapingError("Failed to load page", u, 0)

C8_Witness ==
    \E c \in Slots :
        /\ calls[c].normalized = "https://ex.com/"
        /\ Len(Gotos(calls[c])) = 4
        /\ Gotos(calls[c])[2].result = "timeout"
        /\ Gotos(calls[c])[4].result = "none"
        /\ calls[c].outcome = ScrapingError("Failed to load page", "https://ex.com/", 0)

\* C9: when the first navigation is answered with a status of 400 or more the
\* call fails with a ScrapingError carrying that status and the URL, after
\* that one navigation and no other.
C9_HttpErrorNoRetry ==
    \A c \in Slots :
        LET call == calls[c]
            gs == Gotos(call)
        IN  (gs # <<>> /\ gs[1].result = "response" /\ gs[1].status >= 400)
            => /\ call.pc = "raised"
               /\ call.outcome = ScrapingError("HTTP " \o ToString(gs[1].status),
                                               call.normalized, gs[1].status)
               /\ Len(gs) = 1

C9_Witness ==
    \E c \in Slots :
        /\ Len(Gotos(calls[c])) = 1
        /\ calls[c].outcome = ScrapingError("HTTP 404", "https://ex.com/", 404)

\* C10: when the challenge check finds a CAPTCHA or the interstitial wrapper
\* the call fails with a ScrapingError carrying the page's current URL, and no
\* extraction step has run.
C10_ChallengeStopsScrape ==
    \A c \in Slots :
        LET call == calls[c]
            checks == SelectSeq(call.log, LAMBDA e : e.op = "challenges")
        IN  (checks # <<>> /\ checks[1].result \in {"captcha", "cloudflare"})
            => /\ call.pc = "raised"
               /\ call.outcome.type = "ScrapingError"
               /\ call.outcome.message =
                     (IF checks[1].result = "captcha" THEN "CAPTCHA detected"
                      ELSE "Cloudflare protection detected")
               /\ call.outcome.url = call.pageUrl
               /\ Extractions(call) = <<>>
               /\ call.content = NoContent

C10_Witness ==
    \E c \in Slots :
        /\ calls[c].normalized = "https://ex.com/"
        /\ calls[c].pageUrl = Redirected
        /\ calls[c].outcome = ScrapingError("CAPTCHA detected", Redirected, 0)

\* the timeouts a call met: navigations and the readiness wait
TimedOut(call) ==
    {i \in 1..Len(call.log) :
        call.log[i].op \in {"goto", "waitForFunction"} /\ call.log[i].result = "timeout"}

\* C11: a timeout of a navigation, the first or an alternative one, or of the
\* readiness wait ends the call there and then, and the caller gets
\* ScrapingError("Page load timeout", url) and no other error.
C11_TimeoutIsFatal ==
    \A c \in Slots :
        \A i \in TimedOut(calls[c]) :
            /\ i = Len(calls[c].log)
            /\ calls[c].pc = "raised"
            /\ calls[c].outcome
                 = ScrapingError("Page load timeout", calls[c].normalized, 0)

\* C12: until close() is called a constructed scraper holds a browser that
\* was launched exactly once; scrape calls open pages on it and launch nothing.
C12_BrowserLaunchedOnce ==
    (browser # "None" /\ ~closing /\ launches <= 1)
    => /\ browser = "launched"
       /\ launches = 1

\* C13, in every state: with the handle cleared a scrape call holds no page,
\* and once it has reached line 165 it has failed.
C13_ClosedState ==
    \A c \in Slots :
        (browser = "None" /\ calls[c].kind = "scrape")
        => /\ calls[c].page = 0
           /\ calls[c].log # <<>>
              => /\ calls[c].pc = "raised"
                 /\ calls[c].outcome.type \in {"AttributeError", "CancelledError"}

\* C13, in every step: close() takes down the pages of the browser and ends
\* with the handle cleared, and while the handle is cleared no page is opened.
C13_CloseStep ==
    /\ (~closing /\ closing') => \A p \in DOMAIN pages' : pages'[p].browser # launches
    /\ (closing /\ ~closing') => browser' = "None"
    /\ browser = "None" => (opened' = opened /\ pages' = pages)

\* C13: after close() the browser is torn down and the handle is None, and
\* every scrape started before the browser is set up again fails without
\* opening a page.
C13_ScrapeFailsAfterClose == []C13_ClosedState /\ [][C13_CloseStep]_vars

C13_Witness ==
    \E c \in Slots :
        /\ browser = "None"
        /\ calls[c].kind = "scrape"
        /\ calls[c].pc = "raised"
        /\ calls[c].outcome = Error("AttributeError")
        /\ Len(calls[c].log) = 1
        /\ calls[c].log[1].op = "newPage"
        /\ opened > 0

\* the options a user config names, the fields of a nested option included
Specified(user, key) == key \in DOMAIN user
SpecifiedField(user, key, field) ==
    key \in DOMAIN user /\ field \in DOMAIN user[key]

\* C14: whatever config the user passed, every option the user left out keeps
\* its default in self.config, a field of the nested viewport option included,
\* and every option the user named has the user's value.
C14_MergeKeepsDefaults ==
    \A user \in UserConfigs :
        config = MergeConfig(DEFAULT_CONFIG, user)
        => /\ \A key \in DOMAIN DEFAULT_CONFIG :
                 ~Specified(user, key)
                 => key \in DOMAIN config /\ config[key] = DEFAULT_CONFIG[key]
           /\ \A field \in DOMAIN DEFAULT_CONFIG.viewport :
                 ~SpecifiedField(user, "viewport", field)
                 => /\ field \in DOMAIN config.viewport
                    /\ config.viewport[field] = DEFAULT_CONFIG.viewport[field]
           /\ \A key \in DOMAIN user \ {"viewport"} : config[key] = user[key]
           /\ \A field \in DOMAIN DEFAULT_CONFIG.viewport :
                 SpecifiedField(user, "viewport", field)
                 => config.viewport[field] = user.viewport[field]

\* C15: a scrape call cancelled at a suspension point after it opened its page
\* has closed that page.
C15_CancelClosesPage ==
    \A c \in Slots :
        (calls[c].outcome.type = "CancelledError" /\ calls[c].page # 0)
        => calls[c].page \notin DOMAIN pages

\* the operations a call performs on its page
PageOps ==
    {"setup_page", "goto", "waitForFunction", "scroll", "cookies", "challenges",
     "metadata", "content", "images", "links", "screenshots", "close"}

\* the pages a call opened
PagesOpened(call) ==
    SelectSeq(call.log, LAMBDA e : e.op = "newPage" /\ e.result = "ok")

\* C16, in every state: a call has opened one page at most, the page it holds
\* is the one it opened, and no two calls hold the same page.
C16_OwnPageState ==
    /\ \A c \in Slots :
          /\ Len(PagesOpened(calls[c])) <= 1
          /\ calls[c].page # 0 <=> Len(PagesOpened(calls[c])) = 1
          /\ calls[c].page \in DOMAIN pages
             => pages[calls[c].page].owner = calls[c].id
    /\ \A c, d \in Slots :
          (c # d /\ calls[c].page # 0) => calls[c].page # calls[d].page

\* C16, in every step: a call that performs a page operation performs it on
\* the page it opened and keeps that page; a page that goes away was closed
\* by the call that opened it, and no step changes a page of another call.
C16_OwnPageStep ==
    /\ \A c \in Slots :
          ( /\ calls'[c].id = calls[c].id
            /\ Len(calls'[c].log) = Len(calls[c].log) + 1
            /\ calls'[c].log[Len(calls'[c].log)].op \in PageOps )
          => /\ calls[c].page # 0
             /\ calls'[c].page = calls[c].page
             /\ \A p \in DOMAIN pages :
                   p # calls[c].page => (p \in DOMAIN pages' /\ pages'[p] = pages[p])
    /\ \A p \in DOMAIN pages \ DOMAIN pages' :
          \E c \in Slots :
             /\ calls[c].page = p
             /\ pages[p].owner = calls[c].id
             /\ calls'[c].log = Append(calls[c].log, calls'[c].log[Len(calls'[c].log)])
             /\ calls'[c].log[Len(calls'[c].log)].op = "close"

\* C16: scrape calls that interleave on one browser each open one page of
\* their own, and every operation on a page is performed by the call that
\* opened it.
C16_PagesNotShared == []C16_OwnPageState /\ [][C16_OwnPageStep]_vars

C16_Witness ==
    \E c, d \in Slots :
        /\ c # d
        /\ InFlight(c) /\ InFlight(d)
        /\ calls[c].page \in DOMAIN pages /\ calls[d].page \in DOMAIN pages
        /\ pages[calls[c].page].browser = pages[calls[d].page].browser
        /\ calls[c].pc = "metadata"
        /\ calls[d].pc = "goto"
        /\ calls[c].page > calls[d].page

\* the entry before entry i of a log is this operation with this result
Preceded(log, i, op, results) ==
    i > 1 /\ log[i - 1].op = op /\ log[i - 1].result \in results

\* C17: in the operations of a call, every navigation comes after the page
\* set-up succeeded; the readiness wait comes right after a navigation that
\* was answered with a status below 400, the scroll right after the wait, the
\* cookie step right after the scroll and the challenge check right after the
\* cookie step; every extraction step comes after a challenge check that found
\* the page clear, the first of them right after it.
C17_PhaseOrder ==
    \A c \in Slots :
        LET log == calls[c].log
        IN  \A i \in 1..Len(log) :
               LET e == log[i]
               IN  /\ e.op = "setup_page" => Preceded(log, i, "newPage", {"ok"})
                   /\ e.op = "goto"
                      => \E j \in 1..(i - 1) :
                            log[j].op = "setup_page" /\ log[j].result = "ok"
                   /\ e.op = "waitForFunction"
                      => /\ Preceded(log, i, "goto", {"response"})
                         /\ log[i - 1].status < 400
                   /\ e.op = "scroll" => Preceded(log, i, "waitForFunction", {"ok"})
                   /\ e.op = "cookies" => Preceded(log, i, "scroll", {"ok"})
                   /\ e.op = "challenges"
                      => Preceded(log, i, "cookies", DismissalOutcomes)
                   /\ e.op = "metadata" => Preceded(log, i, "challenges", {"clear"})
                   /\ e.op \in ExtractionOps
                      => \E j \in 1..(i - 1) :
                            log[j].op = "challenges" /\ log[j].result = "clear"

C17_Witness ==
    \E c \in Slots :
        /\ calls[c].outcome.type = "WebContent"
        /\ Len(Gotos(calls[c])) = 2
        /\ Gotos(calls[c])[1].result = "none"
        /\ Gotos(calls[c])[2].result = "response"
        /\ Len(Extractions(calls[c])) = 5
        /\ calls[c].log[Len(calls[c].log)].op = "close"

\* C18: whatever the cookie step met, no popup, a dismissal or a failed
\* interaction, the call is at the challenge check right after it: the step
\* itself never ends the call.
C18_DismissalBestEffort ==
    \A c \in Slots :
        LET log == calls[c].log
        IN  \A i \in 1..Len(log) :
               log[i].op = "cookies"
               => /\ log[i].result \in DismissalOutcomes
                  /\ IF i = Len(log)
                     THEN calls[c].pc = "challenges" /\ calls[c].outcome = NoOutcome
                     ELSE \/ log[i + 1].op = "challenges"
                          \/ log[i + 1].op = "cancel" /\ log[i + 1].result = "challenges"

C18_Witness ==
    \E c \in Slots :
        \E i \in 1..(Len(calls[c].log) - 1) :
            /\ calls[c].log[i].op = "cookies"
            /\ calls[c].log[i].result = "failed"
            /\ calls[c].log[i + 1].op = "challenges"
            /\ calls[c].log[i + 1].result = "clear"

\* C19: a call navigates four times at most, the first navigation and three
\* alternatives, an alternative only after a first navigation without
\* response; when the path of the resolved URL is neither empty nor "/" a first
\* navigation without response ends the call at once with
\* ScrapingError("Failed to load page", url); and a call that has reached its
\* page never goes back to resolving or to opening a page.
C19_BoundedRetry ==
    \A c \in Slots :
        LET call == calls[c]
            u == call.normalized
            gs == Gotos(call)
        IN  /\ Len(gs) <= 4
            /\ Len(gs) > 1 => gs[1].result = "none" /\ gs[1].arg = u
            /\ \A i \in 2..Len(gs) : gs[i].arg # u
            /\ (gs # <<>> /\ gs[1].result = "none" /\ UrlPath(u) \notin {"", "/"})
               => /\ Len(gs) = 1
                  /\ call.pc = "raised"
                  /\ call.outcome = ScrapingError("Failed to load page", u, 0)
            /\ call.log # <<>> => call.pc # "probing"
            /\ Len(SelectSeq(call.log, LAMBDA e : e.op = "newPage")) <= 1

C19_Witness ==
    \E c \in Slots :
        /\ calls[c].normalized = "https://iana.org/home"
        /\ UrlPath(calls[c].normalized) = "/home"
        /\ Len(Gotos(calls[c])) = 1
        /\ Gotos(calls[c])[1].result = "none"
        /\ calls[c].outcome
             = ScrapingError("Failed to load page", "https://iana.org/home", 0)

\* C20: the url of the WebContent a scrape returns is the URL the page was on
\* when its content was extracted, after redirects and alternative paths.
C20_ContentUrlIsFinal ==
    \A c \in Slots :
        calls[c].outcome.type = "WebContent"
        => calls[c].outcome.url = calls[c].pageUrl

====
